---- MODULE Spec2Model ----
(***************************************************************************)
(* flightaware-tracklog: conversion of a FlightAware KML track into a      *)
(* Garmin G1000 CSV track log.  The model follows main() of the three      *)
(* program files (src/main.js, src/unnamed/part_000, src/unnamed/part_001) *)
(* statement by statement.                                                 *)
(*                                                                         *)
(* Representation of the values:                                           *)
(*  - a latitude or longitude is an integer number of hundredths of a      *)
(*    degree (4001 is 40.01), an altitude an integer number of metres;     *)
(*  - an instant (a JavaScript Date) is its number of milliseconds after   *)
(*    2021-01-01T00:00:00Z, so getTime() differences are exact;            *)
(*  - a JavaScript number that may be undefined or Infinity is a record    *)
(*    [k |-> "undefined" | "num" | "inf", v |-> Int].                      *)
(***************************************************************************)
EXTENDS Integers, Sequences, FiniteSets, TLC

VARIABLES variant, feeds, u, pc, rows, last, i, output, first_timestamp, file

vars == <<variant, feeds, u, pc, rows, last, i, output, first_timestamp, file>>

(***************************************************************************)
(* Bounds of the model.                                                    *)
(***************************************************************************)
\* longest coordinate / coordTimes array of a feed
MaxLen == 3
\* most urls given to the multi-url program
MaxSources == 2

(***************************************************************************)
(* Input domains.                                                          *)
(***************************************************************************)
\* [lon, lat, altitudeMeters] triples, as in feat.geometry.coordinates
Coords == { <<-7000, 4000, 100>>, <<-7001, 4001, 200>>, <<-7002, 4002, 1000>> }

\* instants of feat.properties.coordTimes: 00:00:00.000, 00:00:00.500, 00:01:00
Times == { 0, 500, 60000 }

Variants == { "main.js", "part_000", "part_001" }

SeqUpTo(S, n) == UNION { [1..k -> S] : k \in 0..n }

(***************************************************************************)
(* JavaScript values.                                                      *)
(***************************************************************************)
Undefined == [k |-> "undefined", v |-> 0]

Infinity == [k |-> "inf", v |-> 0]

Num(n) == [k |-> "num", v |-> n]

\* String(x) of a number, undefined or Infinity
String(x) ==
    CASE x.k = "undefined" -> "undefined"
      [] x.k = "inf" -> "Infinity"
      [] OTHER -> ToString(x.v)

\* String(x) of a coordinate held in hundredths: 4001 -> "40.01", 4010 -> "40.1",
\* 4000 -> "40", -7001 -> "-70.01"
StringOfDegrees(c) ==
    LET a == IF c < 0 THEN -c ELSE c
        ip == a \div 100
        fp == a % 100
        sign == IF c < 0 THEN "-" ELSE ""
    IN  IF fp = 0 THEN sign \o ToString(ip)
        ELSE IF fp % 10 = 0 THEN sign \o ToString(ip) \o "." \o ToString(fp \div 10)
        ELSE IF fp < 10 THEN sign \o ToString(ip) \o ".0" \o ToString(fp)
        ELSE sign \o ToString(ip) \o "." \o ToString(fp)

RECURSIVE Spaces(_)
Spaces(n) == IF n <= 0 THEN "" ELSE " " \o Spaces(n - 1)

\* String.prototype.padStart / padEnd with the default pad string " "
padStart(s, n) == IF Len(s) >= n THEN s ELSE Spaces(n - Len(s)) \o s

padEnd(s, n) == IF Len(s) >= n THEN s ELSE s \o Spaces(n - Len(s))

Pad2(n) == IF n < 10 THEN "0" \o ToString(n) ELSE ToString(n)

(***************************************************************************)
(* date-fns format() under timezone_mock.register('UTC'), for the instants *)
(* of January 2021 the model uses.                                         *)
(***************************************************************************)
\* format(t, 'yyyy-LL-dd')
FormatDate(t) == "2021-01-" \o Pad2(1 + (t \div 86400000))

\* the hour token: 'HH' is 00..23, 'kk' is 01..24 (midnight is 24)
HourToken(t, token) ==
    LET h == (t \div 3600000) % 24
    IN  IF token = "kk" THEN Pad2(IF h = 0 THEN 24 ELSE h) ELSE Pad2(h)

\* format(t, 'HH:mm:ss') or format(t, 'kk:mm:ss')
FormatTime(t, token) ==
    HourToken(t, token) \o ":" \o Pad2((t \div 60000) % 60) \o ":" \o Pad2((t \div 1000) % 60)

\* the hour token each program file passes to format
TimeToken(v) == IF v = "main.js" THEN "kk" ELSE "HH"

(***************************************************************************)
(* Arithmetic of the row construction and of the speed/heading pass.       *)
(***************************************************************************)
\* AltFeet with Math.floor in the place of Math.round
AltFeetFloor(m) == ((m * 32808) \div 10000) + ((((m * 32808) % 10000) * 100000 + m * 39895) \div 1000000000)

\* Math.round(coord[2] * 3.280839895), in exact integer arithmetic: the factor is
\* split as 3.2808 + 0.000039895 so that no intermediate exceeds 32 bits
AltFeet(m) ==
    LET p == m * 32808
        q1 == p \div 10000
        r1 == p % 10000
        num == r1 * 100000 + m * 39895
    IN  q1 + ((num + 500000000) \div 1000000000)

\* The haversine distance and the angle of the forward azimuth of the coordinate
\* pairs of the model, evaluated with the formulas of getDistanceFromLatLonInNm
\* and of bearing (up to toDegrees(Math.atan2(y, x)), a value of -180..180) in
\* IEEE double arithmetic:
\* <<lat1, lon1, lat2, lon2, floor(nm * 10^6), floor(degrees * 10^3)>>
GeoTable ==
    { <<4000, -7000, 4001, -7001,  757151, -37449>>,
      <<4000, -7000, 4002, -7002, 1514262, -37444>>,
      <<4001, -7001, 4000, -7000,  757151, 142545>>,
      <<4001, -7001, 4002, -7002,  757110, -37445>>,
      <<4002, -7002, 4000, -7000, 1514262, 142543>>,
      <<4002, -7002, 4001, -7001,  757110, 142549>>,
      <<-1, 17999, 0, 17999, 601077, 0>>,
      <<-1, 17999, 0, -17999, 1344049, 63434>>,
      <<-1, 17999, 1, -17999, 1700102, 45000>>,
      <<-1, 17999, 50, 17999, 30654935, 0>>,
      <<0, 17999, -1, 17999, 601077, 180000>>,
      <<0, 17999, 0, -17999, 1202154, 90000>>,
      <<0, 17999, 1, -17999, 1344049, 63434>>,
      <<0, 17999, 50, 17999, 30053858, 0>>,
      <<0, -17999, -1, 17999, 1344049, -116566>>,
      <<0, -17999, 0, 17999, 1202154, -90000>>,
      <<0, -17999, 1, -17999, 601077, 0>>,
      <<0, -17999, 50, 17999, 30077891, -2291>>,
      <<1, -17999, -1, 17999, 1700102, -135000>>,
      <<1, -17999, 0, 17999, 1344049, -116566>>,
      <<1, -17999, 0, -17999, 601077, 180000>>,
      <<1, -17999, 50, 17999, 29477303, -2338>>,
      <<50, 17999, -1, 17999, 30654935, 180000>>,
      <<50, 17999, 0, 17999, 30053858, 180000>>,
      <<50, 17999, 0, -17999, 30077891, 177709>>,
      <<50, 17999, 1, -17999, 29477303, 177662>> }

GeoEntry(lat1, lon1, lat2, lon2) ==
    CHOOSE e \in GeoTable : e[1] = lat1 /\ e[2] = lon1 /\ e[3] = lat2 /\ e[4] = lon2

\* distance in millionths of a nautical mile; identical points give a = 0, c = 0
\* and so exactly 0
getDistanceFromLatLonInNm(lat1, lon1, lat2, lon2) ==
    IF lat1 = lat2 /\ lon1 = lon2 THEN 0 ELSE GeoEntry(lat1, lon1, lat2, lon2)[5]

\* brng = toDegrees(Math.atan2(y, x)) in thousandths of a degree; identical
\* points give atan2(0, 0) = 0
toDegreesAtan2(startLat, startLng, destLat, destLng) ==
    IF startLat = destLat /\ startLng = destLng THEN 0
    ELSE GeoEntry(startLat, startLng, destLat, destLng)[6]

\* bearing returning brng as atan2 gave it
bearingUnnormalized(startLat, startLng, destLat, destLng) ==
    toDegreesAtan2(startLat, startLng, destLat, destLng)

\* return (brng + 360) % 360, in thousandths of a degree; brng + 360 is
\* positive, so the remainder of JavaScript is the modulus
bearing(startLat, startLng, destLat, destLng) ==
    (toDegreesAtan2(startLat, startLng, destLat, destLng) + 360000) % 360000

\* Speed with Math.round in the place of Math.floor
SpeedRounded(dist, time) ==
    IF time = 0 THEN Infinity
    ELSE LET den == 10 * (IF time > 0 THEN time ELSE -time)
             num == (IF time > 0 THEN 36 ELSE -36) * dist
         IN  Num((2 * num + den) \div (2 * den))

\* Math.floor(dist / (time / 1000 / 3600)) with dist in millionths of a nautical
\* mile and time in milliseconds: floor(dist * 36 / (time * 10)); a zero time
\* divides by zero and gives Infinity, a negative time a negative speed
Speed(dist, time) ==
    IF time = 0 THEN Infinity
    ELSE IF time > 0 THEN Num((dist * 36) \div (time * 10))
    ELSE Num(-(((dist * 36) + ((-time) * 10) - 1) \div ((-time) * 10)))

\* Math.floor(heading)
Heading(brng) == Num(brng \div 1000)

(***************************************************************************)
(* The feed: what toJson(link) yields for one url.                         *)
(***************************************************************************)
Feed(cs, ts) ==
    [fetch |-> "ok", hasFeature |-> TRUE, hasCoordinates |-> TRUE,
     hasCoordTimes |-> TRUE, coordinates |-> cs, coordTimes |-> ts]

\* toJson rejects: the url is unreachable or the document is no KML
FetchFailure == [Feed(<<>>, <<>>) EXCEPT !.fetch = "fail"]

\* data.features has fewer than three features
NoFeature == [Feed(<<>>, <<>>) EXCEPT !.hasFeature = FALSE]

\* the third feature has no geometry.coordinates
NoCoordinates(ts) == [Feed(<<>>, ts) EXCEPT !.hasCoordinates = FALSE]

\* the third feature has no properties.coordTimes
NoCoordTimes(cs) == [Feed(cs, <<>>) EXCEPT !.hasCoordTimes = FALSE]

\* the feeds of a run with one url
Feeds ==
    { FetchFailure, NoFeature, NoCoordinates(<<>>) }
    \cup { NoCoordTimes(cs) : cs \in SeqUpTo(Coords, MaxLen) }
    \cup { Feed(cs, ts) : cs \in SeqUpTo(Coords, MaxLen), ts \in SeqUpTo(Times, MaxLen) }

\* The feeds of a run with several urls are the prefixes of a few flights: the
\* n-th coordinate of a flight that moves from point to point, or of one that
\* reports the same position every time
Itineraries == { "moving", "stationary" }

Itinerary(kind, n) ==
    IF kind = "stationary" THEN <<-7002, 4002, 1000>>
    ELSE CASE n % 3 = 1 -> <<-7000, 4000, 100>>
           [] n % 3 = 2 -> <<-7001, 4001, 200>>
           [] OTHER -> <<-7002, 4002, 1000>>

\* the n-th time of a flight: one sample a minute from 00:00:00 or from 00:01:00,
\* or a feed that repeats its first sample
Schedules == { "from0", "from1", "repeat" }

Schedule(kind, n) ==
    CASE kind = "from0" -> (n - 1) * 60000
      [] kind = "from1" -> n * 60000
      [] OTHER -> IF n <= 2 THEN 0 ELSE (n - 2) * 60000

MultiFeeds ==
    { FetchFailure, NoFeature }
    \cup { Feed([n \in 1..k |-> Itinerary(it, n)], [n \in 1..k |-> Schedule(sc, n)]) :
            it \in Itineraries, sc \in Schedules, k \in 0..MaxLen }

\* [lon, lat, altitudeMeters] triples on both sides of the antimeridian: due
\* north, south, east and west of one another, and one far to the north
GeoCoords ==
    { <<17999, -1, 100>>, <<17999, 0, 100>>, <<-17999, 0, 100>>, <<-17999, 1, 100>>,
      <<17999, 50, 100>> }

\* the feeds of a run along any route over these coordinates, one sample a minute
GeoFeeds ==
    { FetchFailure, NoFeature }
    \cup { Feed(cs, [n \in 1..Len(cs) |-> Schedule("from0", n)]) :
            cs \in SeqUpTo(GeoCoords, MaxLen) }

(***************************************************************************)
(* Row construction.                                                       *)
(***************************************************************************)
\* const len = coordinates.length
CoordLen(feed) == Len(feed.coordinates)

\* if (len <= 1) continue: only part_001 has the check
Skipped(feed, v) ==
    /\ v = "part_001"
    /\ feed.hasFeature
    /\ feed.hasCoordinates
    /\ CoordLen(feed) <= 1

\* the statements from data.features[2] to the end of the row loop throw:
\* a TypeError on a missing feature, coordinate array or coordTimes array, or the
\* RangeError of format() on the Invalid Date new Date(undefined) of a missing time
ExtractThrows(feed, v) ==
    \/ ~feed.hasFeature
    \/ ~feed.hasCoordinates
    \/ /\ ~Skipped(feed, v)
       /\ CoordLen(feed) >= 1
       /\ (~feed.hasCoordTimes \/ Len(feed.coordTimes) < CoordLen(feed))

\* rows.push({ lat, lon, alt, t, date, time, zone, pitch, bank }); spd and hdg
\* are not yet properties of the row and read as undefined
Row(coord, t, v) ==
    [lat |-> coord[2], lon |-> coord[1], alt |-> AltFeet(coord[3]), t |-> t,
     date |-> FormatDate(t), time |-> FormatTime(t, TimeToken(v)),
     zone |-> "-00:00", pitch |-> "0", bank |-> "0",
     spd |-> Undefined, hdg |-> Undefined]

\* the row loop: one row per coordinate, paired with the time of the same index
BuildRows(feed, v) ==
    [n \in 1..CoordLen(feed) |-> Row(feed.coordinates[n], feed.coordTimes[n], v)]

(***************************************************************************)
(* Deduplication.                                                          *)
(***************************************************************************)
\* DedupKey comparing the instants truncated to the second
DedupKeySecond(t) == t \div 1000

\* what the filter compares: t.getTime(), the instant in milliseconds
DedupKey(t) == t

\* self.findIndex(t => t.t.getTime() === row.t.getTime()): the first index whose
\* instant is that of row (row itself is in self, so there is one)
FindIndex(self, row) ==
    CHOOSE j \in 1..Len(self) :
        /\ DedupKey(self[j].t) = DedupKey(row.t)
        /\ \A k \in 1..(j - 1) : DedupKey(self[k].t) # DedupKey(row.t)

RECURSIVE FilterFrom(_, _)
FilterFrom(self, index) ==
    IF index > Len(self) THEN <<>>
    ELSE (IF FindIndex(self, self[index]) = index THEN <<self[index]>> ELSE <<>>)
         \o FilterFrom(self, index + 1)

\* Dedup that filters nothing
DedupNothing(rs) == rs

\* Dedup that removes only every other repeat of an instant: a row stays when
\* an even number of earlier rows have its instant
DedupEveryOtherRepeat(rs) ==
    LET Earlier(n) == { j \in 1..(n - 1) : DedupKey(rs[j].t) = DedupKey(rs[n].t) }
        Kept == { n \in 1..Len(rs) : Cardinality(Earlier(n)) % 2 = 0 }
        Nth(n) == CHOOSE k \in Kept : Cardinality({ j \in Kept : j < k }) = n - 1
    IN  [n \in 1..Cardinality(Kept) |-> rs[Nth(n)]]

\* Dedup with the test of the commented-out filter, t.lat === row.lat &&
\* t.lon === row.lon: a row stays when no earlier row has its position
DedupByPosition(rs) ==
    LET Kept == { n \in 1..Len(rs) :
                    \A j \in 1..(n - 1) : rs[j].lat # rs[n].lat \/ rs[j].lon # rs[n].lon }
        Nth(n) == CHOOSE k \in Kept : Cardinality({ j \in Kept : j < k }) = n - 1
    IN  [n \in 1..Cardinality(Kept) |-> rs[Nth(n)]]

\* rows.filter((row, index, self) => self.findIndex(...) === index)
Dedup(rs) == FilterFrom(rs, 1)

(***************************************************************************)
(* The speed/heading pass and the backfill of the first row.               *)
(***************************************************************************)
\* a reference to a row, or undefined
NoRow == <<>>

\* InitialLast keeping the row the previous url's pass ended on
InitialLastKept(rs, prev) == IF prev # NoRow THEN prev ELSE IF Len(rs) = 0 THEN NoRow ELSE <<rs[1]>>

\* let last = rows[0]: undefined when rows is empty
InitialLast(rs, prev) == IF Len(rs) = 0 THEN NoRow ELSE <<rs[1]>>

\* the body of the pass: row.spd and row.hdg from the row last refers to
PassRow(lastRow, row) ==
    LET dist == getDistanceFromLatLonInNm(lastRow.lat, lastRow.lon, row.lat, row.lon)
        time == row.t - lastRow.t
        heading == bearing(lastRow.lat, lastRow.lon, row.lat, row.lon)
    IN  IF dist = 0
        THEN [row EXCEPT !.spd = Undefined, !.hdg = Undefined]
        ELSE [row EXCEPT !.spd = Speed(dist, time), !.hdg = Heading(heading)]

\* rows[0].spd or rows[1].spd is read off a row that does not exist: a TypeError
BackfillThrows(rs) ==
    \/ Len(rs) = 0
    \/ Len(rs) = 1 /\ (rs[1].spd = Undefined \/ rs[1].hdg = Undefined)

\* Backfill with the two statements left out
BackfillOmitted(rs) == rs

\* Backfill with the statement for hdg left out
BackfillSpeedOnly(rs) ==
    [rs EXCEPT ![1].spd = IF rs[1].spd = Undefined THEN rs[2].spd ELSE rs[1].spd]

\* if (rows[0].spd === undefined) rows[0].spd = rows[1].spd, and the same for hdg
Backfill(rs) ==
    [rs EXCEPT ![1].spd = IF rs[1].spd = Undefined THEN rs[2].spd ELSE rs[1].spd,
               ![1].hdg = IF rs[1].hdg = Undefined THEN rs[2].hdg ELSE rs[1].hdg]

(***************************************************************************)
(* Rendering.                                                              *)
(***************************************************************************)
\* the 40 comma-separated fields of the template literal of a data row
RenderRow(row) ==
    << padStart(row.date, 10), padStart(row.time, 9), padStart(row.zone, 8), Spaces(7),
       padEnd(StringOfDegrees(row.lat), 13), padEnd(StringOfDegrees(row.lon), 13),
       Spaces(8), Spaces(6), padStart(ToString(row.alt), 8), Spaces(6), Spaces(7),
       padStart(String(row.spd), 7), Spaces(8), padStart(row.pitch, 7),
       padStart(row.bank, 7), Spaces(7), Spaces(8), Spaces(5), Spaces(6), Spaces(6),
       Spaces(7), Spaces(7), Spaces(9), Spaces(9), Spaces(8), Spaces(8), Spaces(7),
       Spaces(7), Spaces(8), Spaces(8), Spaces(8), Spaces(8), Spaces(8), Spaces(8),
       Spaces(8), Spaces(8), Spaces(8), Spaces(4), Spaces(5),
       padStart(String(row.hdg), 7) >>

\* output += ... for every row, in order
RenderRows(rs) == [k \in 1..Len(rs) |-> RenderRow(rs[k])]

\* header without its airframe line
headerTwoLines == << "#yyy-mm-dd", "  Lcl Date" >>

\* the three lines of the header literal: airframe line, unit line, name line
header == << "#airframe_info", "#yyy-mm-dd", "  Lcl Date" >>

\* format(t, 'yyyy-LL-dd-HH:mm') (main.js: 'yyyy-LL-dd-kk:mm') of the file name
FormatStamp(t, token) ==
    FormatDate(t) \o "-" \o HourToken(t, token) \o ":" \o Pad2((t \div 60000) % 60)

(***************************************************************************)
(* The state machine of main().                                            *)
(***************************************************************************)
null == <<>>

NoFile == [written |-> FALSE, stamp |-> "", header |-> <<>>, data |-> <<>>]

InitCommon ==
    /\ u = 1
    /\ pc = "fetch"
    /\ rows = <<>>
    /\ last = NoRow
    /\ i = 0
    /\ output = <<>>
    /\ first_timestamp = null
    /\ file = NoFile

\* one url, any of the three program files
Init ==
    /\ variant \in Variants
    /\ feeds \in [1..1 -> Feeds]
    /\ InitCommon

\* several urls: only part_001 takes more than one
InitMulti ==
    /\ variant = "part_001"
    /\ feeds \in UNION { [1..n -> MultiFeeds] : n \in 1..MaxSources }
    /\ InitCommon

\* one url whose route runs along and across the antimeridian
InitGeo ==
    /\ variant \in Variants
    /\ feeds \in [1..1 -> GeoFeeds]
    /\ InitCommon

\* Thrown with a handler that reports the error and goes on to write the file
ThrownSwallowed(v) == "write"

\* where an exception thrown inside the url loop ends: part_001 catches it and
\* calls process.exit(1), the other files have no handler and the promise of
\* main() is rejected
Thrown(v) == IF v = "part_001" THEN "exit1" ELSE "crashed"

\* for (const url of urls): the next url, or the code after the loop
AfterUrl(v, n, total) == IF v = "part_001" /\ n + 1 <= total THEN "fetch" ELSE "write"

\* const data = await toJson(link)
Fetch ==
    /\ pc = "fetch"
    /\ feeds[u].fetch = "ok"
    /\ pc' = "extract"
    /\ UNCHANGED <<variant, feeds, u, rows, last, i, output, first_timestamp, file>>

FetchThrows ==
    /\ pc = "fetch"
    /\ feeds[u].fetch # "ok"
    /\ pc' = Thrown(variant)
    /\ UNCHANGED <<variant, feeds, u, rows, last, i, output, first_timestamp, file>>

\* feature selection and row loop, when one of their statements throws
ExtractFails ==
    /\ pc = "extract"
    /\ ExtractThrows(feeds[u], variant)
    /\ pc' = Thrown(variant)
    /\ UNCHANGED <<variant, feeds, u, rows, last, i, output, first_timestamp, file>>

\* if (len <= 1) { ...; continue; }
SkipUrl ==
    /\ pc = "extract"
    /\ ~ExtractThrows(feeds[u], variant)
    /\ Skipped(feeds[u], variant)
    /\ pc' = AfterUrl(variant, u, Len(feeds))
    /\ u' = u + 1
    /\ UNCHANGED <<variant, feeds, rows, last, i, output, first_timestamp, file>>

\* feature selection and row loop
Extract ==
    /\ pc = "extract"
    /\ ~ExtractThrows(feeds[u], variant)
    /\ ~Skipped(feeds[u], variant)
    /\ rows' = BuildRows(feeds[u], variant)
    /\ pc' = "dedup"
    /\ UNCHANGED <<variant, feeds, u, last, i, output, first_timestamp, file>>

\* rows = rows.filter(...); let last = rows[0]; i = 0
DedupRows ==
    /\ pc = "dedup"
    /\ rows' = Dedup(rows)
    /\ last' = InitialLast(rows', last)
    /\ i' = 1
    /\ pc' = "pass"
    /\ UNCHANGED <<variant, feeds, u, output, first_timestamp, file>>

\* one iteration of the speed/heading loop
PassStep ==
    /\ pc = "pass"
    /\ i <= Len(rows)
    /\ rows' = [rows EXCEPT ![i] = PassRow(last[1], rows[i])]
    /\ last' = <<rows'[i]>>
    /\ i' = i + 1
    /\ UNCHANGED <<variant, feeds, u, pc, output, first_timestamp, file>>

\* the two backfill statements, when the row they read does not exist
BackfillFails ==
    /\ pc = "pass"
    /\ i > Len(rows)
    /\ BackfillThrows(rows)
    /\ pc' = Thrown(variant)
    /\ UNCHANGED <<variant, feeds, u, rows, last, i, output, first_timestamp, file>>

BackfillFirst ==
    /\ pc = "pass"
    /\ i > Len(rows)
    /\ ~BackfillThrows(rows)
    /\ rows' = Backfill(rows)
    /\ pc' = "store"
    /\ UNCHANGED <<variant, feeds, u, last, i, output, first_timestamp, file>>

\* FirstTimestamp without the null test
FirstTimestampAlways(ft, rs) == <<rs[1].t>>

\* if (first_timestamp === null) first_timestamp = rows[0].t
FirstTimestamp(ft, rs) == IF ft = null THEN <<rs[1].t>> ELSE ft

\* the render loop, first_timestamp (part_001) and the end of the url's iteration
Store ==
    /\ pc = "store"
    /\ output' = output \o RenderRows(rows)
    /\ first_timestamp' =
          IF variant = "part_001" THEN FirstTimestamp(first_timestamp, rows)
          ELSE first_timestamp
    /\ pc' = AfterUrl(variant, u, Len(feeds))
    /\ u' = u + 1
    /\ UNCHANGED <<variant, feeds, rows, last, i, file>>

\* the instant the default file name is formatted from
NameInstant(v, ft, rs) == IF v = "part_001" THEN ft ELSE <<rs[1].t>>

\* format(first_timestamp, ...) with first_timestamp still null: a RangeError
\* outside every try block
WriteThrows ==
    /\ pc = "write"
    /\ NameInstant(variant, first_timestamp, rows) = null
    /\ pc' = "crashed"
    /\ UNCHANGED <<variant, feeds, u, rows, last, i, output, first_timestamp, file>>

\* fs.writeFileSync(filename, header + output)
Write ==
    /\ pc = "write"
    /\ NameInstant(variant, first_timestamp, rows) # null
    /\ file' = [written |-> TRUE,
                stamp |-> FormatStamp(NameInstant(variant, first_timestamp, rows)[1],
                                      TimeToken(variant)),
                header |-> header, data |-> output]
    /\ pc' = "done"
    /\ UNCHANGED <<variant, feeds, u, rows, last, i, output, first_timestamp>>

\* the write fails (an I/O error): part_001 reports it and exits with status 1
WriteFails ==
    /\ pc = "write"
    /\ NameInstant(variant, first_timestamp, rows) # null
    /\ pc' = Thrown(variant)
    /\ UNCHANGED <<variant, feeds, u, rows, last, i, output, first_timestamp, file>>

Next ==
    \/ Fetch
    \/ FetchThrows
    \/ ExtractFails
    \/ SkipUrl
    \/ Extract
    \/ DedupRows
    \/ PassStep
    \/ BackfillFails
    \/ BackfillFirst
    \/ Store
    \/ WriteThrows
    \/ Write
    \/ WriteFails

Spec == Init /\ [][Next]_vars

SpecMulti == InitMulti /\ [][Next]_vars

SpecGeo == InitGeo /\ [][Next]_vars

(***************************************************************************)
(* Properties of the synthesis of one source.                              *)
(***************************************************************************)
Defined(x) == x.k # "undefined"

SamePlace(a, b) == a.lat = b.lat /\ a.lon = b.lon

\* the rows of the url being processed, as built from the feed before the filter
BuiltRows == BuildRows(feeds[u], variant)

\* synthesis of the current url is complete: forward pass and backfill are done
Synthesized == pc = "store"

\* C1 (as claimed): once synthesis is complete, every point of a Track of at
\* least 2 points has a defined speed and a defined heading.
C1_EveryPointDefined ==
    (Synthesized /\ Len(rows) >= 2) =>
        \A k \in 1..Len(rows) : Defined(rows[k].spd) /\ Defined(rows[k].hdg)

\* C1 (amended): once synthesis is complete, a point after the first has a
\* defined speed and heading exactly when its position differs from that of its
\* predecessor, and the first point has them exactly when the second point has.
C1_DefinedUnlessSamePlace ==
    Synthesized =>
        /\ Len(rows) >= 2
        /\ \A k \in 2..Len(rows) :
              /\ Defined(rows[k].spd) <=> ~SamePlace(rows[k - 1], rows[k])
              /\ Defined(rows[k].hdg) <=> ~SamePlace(rows[k - 1], rows[k])
        /\ Defined(rows[1].spd) <=> Defined(rows[2].spd)
        /\ Defined(rows[1].hdg) <=> Defined(rows[2].hdg)

\* a Track of three points after the backfill, one of them at the position of its
\* predecessor and one not
C1_Witness ==
    /\ Synthesized
    /\ Len(rows) = 3
    /\ \E k \in 2..3 : SamePlace(rows[k - 1], rows[k]) /\ ~Defined(rows[k].spd)
    /\ \E k \in 2..3 : ~SamePlace(rows[k - 1], rows[k]) /\ Defined(rows[k].spd)

\* the feed of the current url is two coordinates with the same timestamp
TwoSameTime(feed) ==
    /\ feed.fetch = "ok" /\ feed.hasFeature /\ feed.hasCoordinates /\ feed.hasCoordTimes
    /\ Len(feed.coordinates) = 2
    /\ Len(feed.coordTimes) = 2
    /\ feed.coordTimes[1] = feed.coordTimes[2]

\* an exception was thrown while the url numbered n was being processed
ThrownAt(n) == u = n /\ pc \in {"exit1", "crashed"}

\* C2: with two coordinates of the same timestamp the filter leaves a Track of
\* length 1 whose speed and heading stay undefined, nothing throws while the
\* source is processed, and the source contributes one data row.
C2_DuplicatePairRendersOneRow ==
    TwoSameTime(feeds[1]) =>
        /\ ~ThrownAt(1)
        /\ (u = 1 /\ pc \in {"pass", "store"}) =>
              /\ Len(rows) = 1
              /\ (i > 1 => ~Defined(rows[1].spd) /\ ~Defined(rows[1].hdg))
        /\ u > 1 => Len(output) = 1

SecondOf(t) == t \div 1000

\* a timestamp at the resolution compared: the instant itself, or its second
Stamp(t, resolution) == IF resolution = "second" THEN SecondOf(t) ELSE t

RECURSIVE KeepFirst(_, _, _)
\* the points of rs from index k on whose timestamp differs from that of every
\* earlier point of rs, in the order of rs
KeepFirst(rs, k, resolution) ==
    IF k > Len(rs) THEN <<>>
    ELSE (IF \A j \in 1..(k - 1) : Stamp(rs[j].t, resolution) # Stamp(rs[k].t, resolution)
          THEN <<rs[k]>> ELSE <<>>)
         \o KeepFirst(rs, k + 1, resolution)

\* the filter has just run on the rows of the current url
Deduplicated == pc = "pass" /\ i = 1

\* C3 (as claimed): the filter removes exactly the points whose timestamp, taken
\* to the second, is that of an earlier point; first occurrences stay, in input
\* order, and no two points of the result share a timestamp to the second.
C3_StableFilterBySecond ==
    Deduplicated =>
        /\ rows = KeepFirst(BuiltRows, 1, "second")
        /\ \A j, k \in 1..Len(rows) : j # k => SecondOf(rows[j].t) # SecondOf(rows[k].t)

\* C3 (amended): the filter removes exactly the points whose instant, to the
\* millisecond, is that of an earlier point; first occurrences stay, in input
\* order, and no two points of the result share an instant.
C3_StableFilterByInstant ==
    Deduplicated =>
        /\ rows = KeepFirst(BuiltRows, 1, "instant")
        /\ \A j, k \in 1..Len(rows) : j # k => rows[j].t # rows[k].t

\* the filter dropped the middle point of three (a repeat of the first) and kept
\* two points of the same second
C3_Witness ==
    /\ Deduplicated
    /\ Len(BuiltRows) = 3
    /\ BuiltRows[1].t = BuiltRows[2].t
    /\ rows = <<BuiltRows[1], BuiltRows[3]>>
    /\ SecondOf(rows[1].t) = SecondOf(rows[2].t)

\* C4 (as claimed): every synthesized Track is time-ascending, whatever the
\* order of the raw points.
C4_TimeAscending ==
    Synthesized => \A k \in 2..Len(rows) : rows[k].t > rows[k - 1].t

\* the coordTimes of the feed never decrease
InputInTimeOrder(feed) ==
    \A j, k \in 1..Len(feed.coordTimes) : j < k => feed.coordTimes[j] <= feed.coordTimes[k]

\* C4 (amended): a synthesized Track keeps the input order of its points; no
\* two consecutive points have the same timestamp, and the Track is
\* time-ascending when the raw points were given in time order.
C4_InputOrderKept ==
    Synthesized =>
        /\ \A k \in 2..Len(rows) : rows[k].t # rows[k - 1].t
        /\ InputInTimeOrder(feeds[u]) => \A k \in 2..Len(rows) : rows[k].t > rows[k - 1].t
        /\ \A k \in 2..Len(rows) :
              \E a, b \in 1..Len(BuiltRows) :
                  a < b /\ BuiltRows[a].t = rows[k - 1].t /\ BuiltRows[b].t = rows[k].t

\* a Track of three points from a feed in time order with one repeated time
C4_Witness ==
    /\ Synthesized
    /\ Len(rows) = 2
    /\ Len(feeds[u].coordTimes) = 3
    /\ InputInTimeOrder(feeds[u])
    /\ rows[2].t > rows[1].t

(***************************************************************************)
(* Properties of a run over several urls.                                  *)
(***************************************************************************)
\* the speed/heading pass over a whole Track, each row against the row before
\* it and the first row against itself
PassAll(rs) ==
    [k \in 1..Len(rs) |-> PassRow(IF k = 1 THEN rs[1] ELSE rs[k - 1], rs[k])]

\* the data rows of a source synthesized alone: none when the source is skipped
\* or when its synthesis throws
RowsAlone(feed, v) ==
    IF feed.fetch # "ok" \/ ExtractThrows(feed, v) \/ Skipped(feed, v) THEN <<>>
    ELSE LET rs == PassAll(Dedup(BuildRows(feed, v)))
         IN  IF BackfillThrows(rs) THEN <<>> ELSE RenderRows(Backfill(rs))

RECURSIVE ConcatAlone(_, _, _)
\* the rows of the first n sources, each synthesized alone, in source order
ConcatAlone(fs, n, v) ==
    IF n = 0 THEN <<>> ELSE ConcatAlone(fs, n - 1, v) \o RowsAlone(fs[n], v)

\* C5: the data rows accumulated when the loop has passed n sources are the
\* concatenation, in source order, of the rows each of them gives when it is
\* synthesized alone, and these are the rows of the file written.
C5_RowsOfSourcesAlone ==
    /\ output = ConcatAlone(feeds, u - 1, variant)
    /\ file.written => file.data = ConcatAlone(feeds, Len(feeds), variant)

\* a file of two sources of two points each, the second source starting where
\* the first did not end
C5_Witness ==
    /\ pc = "done"
    /\ Len(feeds) = 2
    /\ Len(feeds[1].coordinates) = 2
    /\ Len(feeds[2].coordinates) = 2
    /\ feeds[1].coordinates[2] # feeds[2].coordinates[1]
    /\ Len(file.data) = 4

\* a well-formed trajectory of fewer than 2 coordinates
ShortSource(feed) ==
    /\ feed.fetch = "ok" /\ feed.hasFeature /\ feed.hasCoordinates /\ feed.hasCoordTimes
    /\ Len(feed.coordinates) <= 1
    /\ Len(feed.coordTimes) = Len(feed.coordinates)

\* C6: a source of fewer than 2 coordinates is no error: nothing throws while
\* it is processed, none of its points is rendered, and a run is not ended by
\* an exception on account of it.
C6_ShortSourceSkipped ==
    /\ \A k \in 1..Len(feeds) :
          ShortSource(feeds[k]) => ~ThrownAt(k) /\ ~(u = k /\ pc = "store")
    /\ (\A k \in 1..Len(feeds) : ShortSource(feeds[k])) => pc # "crashed"

Min(S) == CHOOSE x \in S : \A y \in S : x <= y

\* the first timestamp of the first of the first n sources that is not skipped
FirstOfNonSkipped(n) ==
    LET F == { k \in 1..n : ~Skipped(feeds[k], variant) }
    IN  IF F = {} THEN null ELSE <<feeds[Min(F)].coordTimes[1]>>

\* C7: first_timestamp is the timestamp of the first point of the first
\* non-skipped source among the sources the loop has passed, so no later source
\* changes it once it is set.
C7_FirstTimestampSetOnce == first_timestamp = FirstOfNonSkipped(u - 1)

\* two sources stored, starting at different times, the first of them skipped
\* by neither the check nor an error
C7_Witness ==
    /\ pc = "done"
    /\ Len(feeds) = 2
    /\ ~Skipped(feeds[1], variant)
    /\ ~Skipped(feeds[2], variant)
    /\ feeds[1].coordTimes[1] # feeds[2].coordTimes[1]
    /\ first_timestamp = <<feeds[1].coordTimes[1]>>

\* C8: when toJson fails for a source the run ends there with exit status 1:
\* the loop never passes that source and no file is written.
C8_FetchFailureAborts ==
    \A k \in 1..Len(feeds) :
        feeds[k].fetch = "fail" =>
            /\ u <= k
            /\ ~file.written
            /\ pc \notin {"write", "done"}
            /\ u = k => pc \in {"fetch", "exit1"}

\* the second url fails after the first gave rows: exit 1 and no file
C8_Witness ==
    /\ pc = "exit1"
    /\ Len(feeds) = 2
    /\ u = 2
    /\ feeds[2].fetch = "fail"
    /\ Len(output) >= 2
    /\ ~file.written

(***************************************************************************)
(* Properties of the extraction and of the rendering.                      *)
(***************************************************************************)
\* the third feature, one of its arrays or the equality of their lengths is missing
BadShape(feed) ==
    /\ feed.fetch = "ok"
    /\ \/ ~feed.hasFeature
       \/ ~feed.hasCoordinates
       \/ ~feed.hasCoordTimes
       \/ Len(feed.coordTimes) # Len(feed.coordinates)

\* C9: a source fails with an error, and none of its points is rendered,
\* whenever the feature is missing, the coordinate or timestamp array is
\* missing, or the two arrays differ in length (the timestamp array being the
\* longer included).  A source that the len <= 1 check skips is read here as
\* the "insufficient data" case of C6 and not counted against the claim.
C9_BadShapeFails ==
    \A k \in 1..Len(feeds) :
        (BadShape(feeds[k]) /\ ~Skipped(feeds[k], variant)) =>
            /\ u <= k
            /\ u = k => pc # "store"

\* the widths of the 40 fields of the data row template
ColumnWidths ==
    << 10, 9, 8, 7, 13, 13, 8, 6, 8, 6, 7, 7, 8, 7, 7, 7, 8, 5, 6, 6,
       7, 7, 9, 9, 8, 8, 7, 7, 8, 8, 8, 8, 8, 8, 8, 8, 8, 4, 5, 7 >>

\* C10: every field of every rendered data line has exactly the
\* width of its column.
C10_ExactColumnWidths ==
    \A n \in 1..Len(output) :
        \A c \in 1..Len(ColumnWidths) : Len(output[n][c]) = ColumnWidths[c]

(***************************************************************************)
(* Properties of the file written.                                         *)
(***************************************************************************)
\* the Track of a source synthesized alone: no point when the source is skipped
\* or when its synthesis throws
TrackAlone(feed, v) ==
    IF feed.fetch # "ok" \/ ExtractThrows(feed, v) \/ Skipped(feed, v) THEN <<>>
    ELSE LET rs == PassAll(Dedup(BuildRows(feed, v)))
         IN  IF BackfillThrows(rs) THEN <<>> ELSE Backfill(rs)

RECURSIVE ConcatTracks(_, _, _)
\* the Tracks of the first n sources, concatenated in source order
ConcatTracks(fs, n, v) ==
    IF n = 0 THEN <<>> ELSE ConcatTracks(fs, n - 1, v) \o TrackAlone(fs[n], v)

\* the number of lines of a file: every line of the header and every data row
\* ends with a line feed
LineCount(f) == Len(f.header) + Len(f.data)

\* C11 (as claimed): the file written has exactly two header lines and then one
\* data line per TrackPoint of the concatenated Tracks, in Track order: n + 2
\* lines for n points.
C11_TwoHeaderLines ==
    file.written =>
        LET T == ConcatTracks(feeds, Len(feeds), variant)
        IN  /\ Len(file.header) = 2
            /\ LineCount(file) = Len(T) + 2
            /\ Len(file.data) = Len(T)
            /\ \A k \in 1..Len(T) : file.data[k] = RenderRow(T[k])

\* C11 (amended): the file written has exactly three header lines (airframe
\* line, unit line, column-name line) and then one data line per TrackPoint of
\* the concatenated Tracks, in Track order: n + 3 lines for n points.
C11_ThreeHeaderLines ==
    file.written =>
        LET T == ConcatTracks(feeds, Len(feeds), variant)
        IN  /\ Len(file.header) = 3
            /\ LineCount(file) = Len(T) + 3
            /\ Len(file.data) = Len(T)
            /\ \A k \in 1..Len(T) : file.data[k] = RenderRow(T[k])

\* the file of one source of three points: six lines
C11_Witness ==
    /\ file.written
    /\ Len(feeds) = 1
    /\ Len(feeds[1].coordinates) = 3
    /\ Len(file.data) = 3
    /\ LineCount(file) = 6

\* the UTC time of an instant as HH:mm:ss, the hour in 00..23
UtcTimeOfDay(t) ==
    LET h == (t \div 3600000) % 24
        m == (t \div 60000) % 60
        sec == (t \div 1000) % 60
    IN  Pad2(h) \o ":" \o Pad2(m) \o ":" \o Pad2(sec)

\* the UTC date of an instant of January 2021 as yyyy-MM-dd
UtcDate(t) == "2021-01-" \o Pad2(1 + (t \div 86400000))

\* C12: in every program file, the time field of each data row is the UTC time
\* of its point as HH:mm:ss with the hour in 00..23 (00 at midnight), and the
\* date field is its UTC date as yyyy-MM-dd.
C12_TimeFieldHourFrom00 ==
    u > 1 =>
        \A k \in 1..Len(output) :
            /\ output[k][1] = UtcDate(rows[k].t)
            /\ output[k][2] = " " \o UtcTimeOfDay(rows[k].t)

(***************************************************************************)
(* Properties of the functions of the synthesis.                           *)
(***************************************************************************)
\* C13: the deduplication filter is idempotent: applied to its own output,
\* whatever sequence of points that output came from, it returns the output
\* unchanged, the same points in the same order.
C13_DedupIdempotent ==
    /\ Dedup(Dedup(rows)) = Dedup(rows)
    /\ Deduplicated => Dedup(rows) = rows

\* the filter has reduced three points of one instant to one, and filtering
\* that one again changes nothing
C13_Witness ==
    /\ Deduplicated
    /\ Len(BuiltRows) = 3
    /\ Len(rows) = 1
    /\ Dedup(rows) = rows

\* altitudeMeters * 3.280839895 as <<whole, billionths>>, the factor taken as
\* 3 + 0.28 + 0.000839895
FeetExact(m) ==
    LET billionths == ((m * 280) % 1000) * 1000000 + m * 839895
    IN  << 3 * m + ((m * 280) \div 1000) + (billionths \div 1000000000),
           billionths % 1000000000 >>

\* the integer nearest to altitudeMeters * 3.280839895
NearestFeet(m) ==
    FeetExact(m)[1] + (IF 2 * FeetExact(m)[2] >= 1000000000 THEN 1 ELSE 0)

\* C14: the altitude of every row, and the altitude field of every rendered
\* line, is round(altitudeMeters * 3.280839895) for the coordinate the row was
\* built from, rounded to the nearest integer; 1000 m gives 3281 ft.
C14_AltitudeRoundedFeet ==
    /\ pc = "dedup" =>
          \A k \in 1..Len(rows) : rows[k].alt = NearestFeet(feeds[u].coordinates[k][3])
    /\ u > 1 =>
          \A n \in 1..Len(output) :
              \E k \in 1..Len(feeds[1].coordinates) :
                  LET c == feeds[1].coordinates[k]
                  IN  /\ c[2] = rows[n].lat /\ c[1] = rows[n].lon
                      /\ output[n][9] = padStart(ToString(NearestFeet(c[3])), 8)
                      /\ c[3] = 1000 => output[n][9] = "    3281"

\* a rendered line of a point at 1000 m and one of a point at 100 m
C14_Witness ==
    /\ u > 1
    /\ \E n \in 1..Len(output) : rows[n].lat = 4002 /\ output[n][9] = "    3281"
    /\ \E n \in 1..Len(output) : rows[n].lat = 4000 /\ output[n][9] = "     328"

\* C15: bearing returns a value in [0, 360) for every pair of coordinates, pairs
\* on opposite sides of the antimeridian included, and so every defined
\* heading of a Track is an integer in 0..359.
C15_BearingWithin0To360 ==
    /\ \A a, b \in 1..Len(feeds[1].coordinates) :
          LET p == feeds[1].coordinates[a]
              q == feeds[1].coordinates[b]
          IN  bearing(p[2], p[1], q[2], q[1]) \in 0..359999
    /\ \A k \in 1..Len(rows) :
          Defined(rows[k].hdg) => rows[k].hdg.k = "num" /\ rows[k].hdg.v \in 0..359

\* a point west of the antimeridian followed by one east of it: atan2 gives a
\* negative angle and the heading is past 180
C15_Witness ==
    /\ Synthesized
    /\ \E k \in 2..Len(rows) :
          /\ rows[k - 1].lon < 0
          /\ rows[k].lon > 0
          /\ toDegreesAtan2(rows[k - 1].lat, rows[k - 1].lon, rows[k].lat, rows[k].lon) < 0
          /\ Defined(rows[k].hdg)
          /\ rows[k].hdg.v > 180

\* the row a point is compared with in the forward pass: the row before it,
\* and the first row itself for the first
Predecessor(rs, k) == rs[IF k = 1 THEN 1 ELSE k - 1]

\* s is the integer floor of the quotient num / den of a positive den
IsFloorOf(s, num, den) == s * den <= num /\ num < (s + 1) * den

\* s is floor(distanceNm / (elapsedMillis / 1000 / 3600)), the distance given in
\* millionths of a nautical mile: the quotient is 36 dist / (10 elapsed)
IsFloorSpeed(s, dist, elapsed) ==
    IF elapsed > 0 THEN s.k = "num" /\ IsFloorOf(s.v, 36 * dist, 10 * elapsed)
    ELSE IF elapsed < 0 THEN s.k = "num" /\ IsFloorOf(s.v, -36 * dist, -10 * elapsed)
    ELSE s.k = "inf"

\* C16: in the forward pass over the deduplicated rows each point is compared
\* with its immediate predecessor (the first with itself); its speed and
\* heading are left undefined exactly when the distance to that predecessor is
\* zero, and otherwise are floor(distanceNm / (elapsedMillis / 1000 / 3600)) and
\* floor(bearingDegrees).
C16_ForwardPass ==
    (pc = "pass" /\ Len(rows) >= 1) =>
        /\ last = <<Predecessor(rows, i)>>
        /\ \A k \in 1..(i - 1) :
              LET pred == Predecessor(rows, k)
                  dist == getDistanceFromLatLonInNm(pred.lat, pred.lon, rows[k].lat, rows[k].lon)
                  brng == bearing(pred.lat, pred.lon, rows[k].lat, rows[k].lon)
              IN  /\ ~Defined(rows[k].spd) <=> dist = 0
                  /\ ~Defined(rows[k].hdg) <=> dist = 0
                  /\ dist # 0 =>
                        /\ IsFloorSpeed(rows[k].spd, dist, rows[k].t - pred.t)
                        /\ rows[k].hdg.k = "num"
                        /\ IsFloorOf(rows[k].hdg.v, brng, 1000)

\* the pass is over three points: one at the place of its predecessor, one
\* that moved forward in time and has a positive speed
C16_Witness ==
    /\ pc = "pass"
    /\ Len(rows) = 3
    /\ i = 4
    /\ ~Defined(rows[1].spd)
    /\ \E k \in 2..3 : SamePlace(rows[k - 1], rows[k]) /\ ~Defined(rows[k].hdg)
    /\ \E k \in 2..3 : rows[k].t > rows[k - 1].t /\ rows[k].spd.k = "num" /\ rows[k].spd.v > 0

\* C17: the backfill of a Track of at least 2 points finds the first point
\* without a speed and a heading of its own, leaves it with the speed and the
\* heading of the second point, and changes no other point.
C17_FirstTakesSecond ==
    [][ (pc = "pass" /\ pc' = "store" /\ Len(rows) >= 2) =>
            /\ ~Defined(rows[1].spd) /\ ~Defined(rows[1].hdg)
            /\ rows'[1].spd = rows'[2].spd
            /\ rows'[1].hdg = rows'[2].hdg
            /\ rows'[1] = [rows[1] EXCEPT !.spd = rows[2].spd, !.hdg = rows[2].hdg]
            /\ Len(rows') = Len(rows)
            /\ \A k \in 2..Len(rows) : rows'[k] = rows[k] ]_vars

\* a backfilled Track of three points: the first has the speed and heading of
\* the second, both defined, and the third has a speed of its own
C17_Witness ==
    /\ Synthesized
    /\ Len(rows) = 3
    /\ Defined(rows[2].spd)
    /\ rows[1].spd = rows[2].spd
    /\ rows[1].hdg = rows[2].hdg
    /\ Defined(rows[3].spd)
    /\ rows[3].spd # rows[2].spd

(***************************************************************************)
(* Properties of the elapsed time and of the file name.                    *)
(***************************************************************************)
\* C18: once the rows of a source are deduplicated, no two consecutive rows
\* have the same instant, so no speed is computed by a division by zero and no
\* speed, in a row or in a rendered line, is infinite; a point earlier than its
\* predecessor and away from it has a negative speed.
C18_NoZeroElapsedTime ==
    /\ pc # "dedup" =>
          /\ \A k \in 2..Len(rows) : rows[k].t - rows[k - 1].t # 0
          /\ \A k \in 1..Len(rows) : rows[k].spd.k # "inf"
          /\ \A k \in 2..Len(rows) :
                (rows[k].t < rows[k - 1].t /\ Defined(rows[k].spd)) => rows[k].spd.v < 0
    /\ \A n \in 1..Len(output) : output[n][12] # "Infinity"

\* a rendered Track of two points left of three by the filter, the second
\* earlier than the first and with a negative speed
C18_Witness ==
    /\ u > 1
    /\ Len(feeds[1].coordTimes) = 3
    /\ Len(rows) = 2
    /\ Len(output) = 2
    /\ rows[2].t < rows[1].t
    /\ rows[2].spd.k = "num"
    /\ rows[2].spd.v < 0

\* C19: when the run comes to derive the default file name, first_timestamp
\* has been set by a source that was not skipped; a run whose every source is
\* skipped never formats a null timestamp and never writes a file without
\* data rows.
C19_NameFromSetTimestamp ==
    /\ pc = "write" =>
          /\ first_timestamp # null
          /\ \E k \in 1..Len(feeds) :
                ~Skipped(feeds[k], variant) /\ first_timestamp = <<feeds[k].coordTimes[1]>>
    /\ (\A k \in 1..Len(feeds) : Skipped(feeds[k], variant)) =>
          /\ ~(pc = "write" /\ NameInstant(variant, first_timestamp, rows) = null)
          /\ pc # "crashed"
          /\ ~file.written
    /\ file.written => Len(file.data) > 0

====
